---- MODULE Spec2Model ----
(***************************************************************************)
(* VaniJS: the navigation engine (router.js) and the virtual-node          *)
(* reconciler (vanijs.js).                                                 *)
(*                                                                         *)
(* A path is the sequence of its segments: "/" is <<"">>, "/item/42" is    *)
(* <<"item", "42">>, "/item/" is <<"item", "">>.  The empty sequence is    *)
(* JavaScript's null (currentRoute) or the empty hash (location).  A path  *)
(* string that does not begin with '/' is marked by a first element "~":   *)
(* 'constructor' is <<"~", "constructor">>.                                *)
(*                                                                         *)
(* An async function is a task: a record with a program counter.  One      *)
(* step of a task runs from one await to the next; awaits on hook          *)
(* emissions that neither read nor write router state between them are     *)
(* folded into the step that follows them.                                  *)
(***************************************************************************)
EXTENDS Integers, Sequences, FiniteSets, TLC

VARIABLES
    routes,            \* router.routes, in registration (key) order
    routerMiddlewares, \* router.routerMiddlewares
    navigationLock,    \* router.navigationLock
    currentRoute,      \* router.currentRoute
    params,            \* router.params
    history,           \* router.history
    location,          \* window.location.hash without '#'
    pendingEvents,     \* hashchange / load events queued by the browser
    container,         \* what the mount target shows
    committed,         \* the screen vani.vdom.currentTree was built for
    currentComponent,  \* vani.currentComponent
    tasks,             \* the navigate() / _handleRoute() invocations in flight
    ended,             \* the navigate() / _handleRoute() call that returned last
    started,           \* number of invocations started so far
    vdomTree,          \* vani.vdom.currentTree
    prevTree,          \* the tree that was current before the last render
    lastVNode,         \* the tree passed to the last render
    host,              \* the host node of the mount target passed to render
    muts,              \* host mutations made by the last render call
    renderFault,       \* the last render call threw
    matchPath,         \* the path last passed to findMatchingRoute
    matchResult,       \* what that call returned
    state,             \* vani.state, one slot per screen name
    setters,           \* the screen names a state updater was returned for
    creates,           \* per screen name, how often its initial state was evaluated
    stateCall,         \* the last useState or state updater call
    stateCalls,        \* number of useState and state updater calls so far
    rendering,         \* the renderComponent calls awaiting runMiddlewares
    hooks,             \* pluginSystem.hooks: per hook name, its subscribers
    pluginEnabled,     \* per registered plugin, its enabled flag
    emissions,         \* the executeHook calls in flight
    emitDone,          \* the executeHook call that returned last
    emits,             \* number of executeHook calls that found subscribers
    plugins,           \* the keys of pluginSystem.plugins, in insertion order
    pluginStatus,      \* pluginSystem.pluginStates: per name, its status
    dependencies,      \* pluginSystem.dependencies: per name, its declared list
    pluginLoadOrder,   \* pluginSystem.pluginLoadOrder
    initialized,       \* pluginSystem.initialized
    initLog,           \* the plugins whose init was invoked, in order
    pluginCall,        \* the last register / unregister / initializeAll call
    unregs,            \* number of unregister calls that removed a plugin
    cbState,           \* circuitBreaker: state
    failureCount,      \* circuitBreaker: failureCount
    nextAttempt,       \* circuitBreaker: nextAttempt
    clock,             \* Date.now()
    cbCalls,           \* the calls of the guard that await next()
    cbLast,            \* what the last step of the guard was
    cbStarted          \* number of calls of the guard so far

routerVars == <<routes, routerMiddlewares, navigationLock, currentRoute,
                params, history, location, pendingEvents, container,
                committed, currentComponent, tasks, ended, started>>

domVars == <<vdomTree, prevTree, lastVNode, host, muts, renderFault>>

matchVars == <<matchPath, matchResult>>

stateVars == <<state, setters, creates, stateCall, stateCalls, rendering>>

\* The router's variables but for vani.currentComponent
navVars == <<routes, routerMiddlewares, navigationLock, currentRoute, params,
             history, location, pendingEvents, container, committed, tasks,
             ended, started>>

hookVars == <<hooks, pluginEnabled, emissions, emitDone, emits>>

registryVars == <<plugins, pluginStatus, dependencies, pluginLoadOrder,
                  initialized, initLog, pluginCall, unregs>>

breakerVars == <<cbState, failureCount, nextAttempt, clock, cbCalls, cbLast,
                 cbStarted>>

vars == <<routerVars, domVars, matchVars, stateVars, hookVars, registryVars, breakerVars>>

-----------------------------------------------------------------------------
(* Bounds *)

MaxTasks == 2

MaxWidth == 2

-----------------------------------------------------------------------------
(* Paths, routes and guards of the application *)

NoPath   == <<>>
PRoot    == <<"">>
PLogin   == <<"login">>
PNope    == <<"nope">>
P404     == <<"404">>
P500     == <<"500">>
PItem    == <<"item", ":id">>
PItem42  == <<"item", "42">>
PAny42   == <<":name", "42">>
PConstructor == <<"~", "constructor">>

ParamSegs == {":id", ":name"}

ParamName(seg) == CASE seg = ":id" -> "id"
                    [] seg = ":name" -> "name"

\* The path string begins with '/'
Rooted(path) == path = <<>> \/ path[1] # "~"

\* Keys that routes, a plain object, inherits from Object.prototype
InheritedKeys == {PConstructor}

\* routes['constructor']: the Object function, truthy and not a route record
InheritedMember == [originalPath |-> NoPath, component |-> "Object",
                    middlewares |-> <<>>, params |-> <<>>]

NoRoute == [originalPath |-> NoPath, component |-> "", middlewares |-> <<>>,
            params |-> <<>>]

\* The names of the ':name' segments of a path, in order (path.match(/:(\w+)/g))
RECURSIVE ParamNames(_)
ParamNames(path) ==
    IF path = <<>> THEN <<>>
    ELSE IF Head(path) \in ParamSegs
         THEN <<ParamName(Head(path))>> \o ParamNames(Tail(path))
         ELSE ParamNames(Tail(path))

IndexOfRoute(rs, path) ==
    IF \E i \in 1..Len(rs) : rs[i].originalPath = path
    THEN CHOOSE i \in 1..Len(rs) : rs[i].originalPath = path
    ELSE 0

defineRoute(rs, path, component, middlewares) ==
    LET rec == [originalPath |-> path, component |-> component,
                middlewares |-> middlewares, params |-> ParamNames(path)]
        i   == IndexOfRoute(rs, path)
    IN IF i = 0 THEN Append(rs, rec) ELSE [rs EXCEPT ![i] = rec]

HasRoute(rs, path) == IndexOfRoute(rs, path) # 0

\* route.pattern, '^' + path.replace(/:(\w+)/g, '(?<$1>[^/]+)') + '$',
\* applied to a path: same number of segments, a parameter segment takes
\* any non-empty segment, any other segment must be equal.
PatternMatchesUnanchored(route, path) ==
    /\ Rooted(path)
    /\ Len(route.originalPath) <= Len(path)
    /\ \A i \in 1..Len(route.originalPath) :
          IF route.originalPath[i] \in ParamSegs
          THEN path[i] # ""
          ELSE route.originalPath[i] = path[i]

PatternMatches(route, path) ==
    /\ Rooted(path)
    /\ Len(route.originalPath) = Len(path)
    /\ \A i \in 1..Len(path) :
          IF route.originalPath[i] \in ParamSegs
          THEN path[i] # ""
          ELSE route.originalPath[i] = path[i]

MatchGroups(route, path) ==
    { <<ParamName(route.originalPath[i]), path[i]>> :
        i \in { j \in 1..Len(route.originalPath) :
                   route.originalPath[j] \in ParamSegs } }

findMatchingRoute(rs, path) ==
    IF HasRoute(rs, path)
    THEN [route |-> rs[IndexOfRoute(rs, path)], params |-> {}]
    ELSE IF path \in InheritedKeys
    THEN [route |-> InheritedMember, params |-> {}]
    ELSE IF \E i \in 1..Len(rs) : PatternMatches(rs[i], path)
         THEN LET i == CHOOSE k \in 1..Len(rs) :
                          /\ PatternMatches(rs[k], path)
                          /\ \A j \in 1..(k - 1) : ~PatternMatches(rs[j], path)
              IN [route |-> rs[i], params |-> MatchGroups(rs[i], path)]
         ELSE [route |-> NoRoute, params |-> {}]

\* The application's registrations (app.js); '/404' and '/500' are optional.
BaseRoutes ==
    defineRoute(defineRoute(defineRoute(<<>>,
        PRoot,  "Dashboard", <<>>),
        PLogin, "LoginForm", <<>>),
        PItem,  "Item",      <<"r1", "r2">>)

\* The application's routes, with or without the fallback screens
RouteConfig(fallbacks) ==
    IF fallbacks
    THEN defineRoute(defineRoute(BaseRoutes,
             P404, "NotFoundPage", <<>>),
             P500, "ErrorPage",    <<>>)
    ELSE BaseRoutes

GlobalGuards == <<"g1", "g2">>

\* What a guard does when invoked: returns, calls context.cancel(), calls
\* context.redirect('/login') and throws Error('Navigation cancelled')
\* (authMiddlewares.requireAuth), or throws some other fault.
GuardOutcomes == {"pass", "cancel", "redirect", "fault"}

NavTargets == {PLogin, PItem42, PNope}

LocationTargets == {PItem42, PNope}

-----------------------------------------------------------------------------
(* Router state as a record, so that nested calls compose *)

Cur == [routes |-> routes, routerMiddlewares |-> routerMiddlewares,
        navigationLock |-> navigationLock, currentRoute |-> currentRoute,
        params |-> params, history |-> history, location |-> location,
        pendingEvents |-> pendingEvents, container |-> container,
        committed |-> committed,
        currentComponent |-> currentComponent, tasks |-> tasks,
        ended |-> ended, started |-> started]

Becomes(st) ==
    /\ routes' = st.routes
    /\ routerMiddlewares' = st.routerMiddlewares
    /\ navigationLock' = st.navigationLock
    /\ currentRoute' = st.currentRoute
    /\ params' = st.params
    /\ history' = st.history
    /\ location' = st.location
    /\ pendingEvents' = st.pendingEvents
    /\ container' = st.container
    /\ committed' = st.committed
    /\ currentComponent' = st.currentComponent
    /\ tasks' = st.tasks
    /\ ended' = st.ended
    /\ started' = st.started
    /\ UNCHANGED <<domVars, matchVars, stateVars, hookVars, registryVars, breakerVars>>

\* The frame of one call of an async function
NewTask(kind, path, replace, m) ==
    [kind |-> kind, pc |-> "start", path |-> path, replace |-> replace,
     route |-> m.route, params |-> m.params, gi |-> 0, guardLog |-> <<>>,
     emitted |-> {}]

\* What is remembered of a call that has returned
Ended(t, outcome, rendered) ==
    [kind |-> t.kind, emitted |-> t.emitted, outcome |-> outcome,
     rendered |-> rendered]

NoMatch == [route |-> NoRoute, params |-> {}]

NoneEnded == Ended(NewTask("none", NoPath, FALSE, NoMatch), "none", "none")

RemoveAt(seq, i) == SubSeq(seq, 1, i - 1) \o SubSeq(seq, i + 1, Len(seq))

\* The async function returns: its frame leaves the tasks in flight
Finish(st, id, outcome, rendered) ==
    [st EXCEPT !.tasks = RemoveAt(@, id),
               !.ended = Ended(st.tasks[id], outcome, rendered)]

-----------------------------------------------------------------------------
(* VaniRouter.navigate *)

\* The gate drops a call made under the lock only when the call is forced
NavGateLockOnlyForced(st, path, force) ==
    IF st.navigationLock /\ force THEN "locked"
    ELSE IF st.currentRoute = path /\ ~force THEN "noop"
    ELSE "start"

\* lines 46-53: the lock gate and the no-op check
NavGate(st, path, force) ==
    IF st.navigationLock THEN "locked"
    ELSE IF st.currentRoute = path /\ ~force THEN "noop"
    ELSE "start"

\* The early return of the no-match branch leaves without the cleanup
NavFinallySkippedOnReturn(st, id, outcome) ==
    Finish([st EXCEPT !.navigationLock = (outcome = "notfound")],
           id, outcome, "none")

\* lines 119-121: finally
NavFinally(st, id, outcome) ==
    Finish([st EXCEPT !.navigationLock = FALSE], id, outcome, "none")

\* The commit pushes whatever the replace flag says
NavCommitAlwaysPush(st, id) ==
    LET t == st.tasks[id]
    IN [st EXCEPT !.history = Append(st.history, t.path),
                  !.currentRoute = t.path,
                  !.params = t.params,
                  !.location = t.path,
                  !.pendingEvents = IF st.location # t.path THEN @ + 1 ELSE @,
                  !.tasks[id].emitted = @ \cup {"router:navigation-complete"},
                  !.tasks[id].pc = "n_complete"]

\* lines 78-105: history commit, location write, navigation-complete
NavCommit(st, id) ==
    LET t == st.tasks[id]
        h == IF t.replace /\ Len(st.history) > 0
             THEN [st.history EXCEPT ![Len(st.history)] = t.path]
             ELSE Append(st.history, t.path)
    IN [st EXCEPT !.history = h,
                  !.currentRoute = t.path,
                  !.params = t.params,
                  !.location = t.path,
                  !.pendingEvents = IF st.location # t.path THEN @ + 1 ELSE @,
                  !.tasks[id].emitted = @ \cup {"router:navigation-complete"},
                  !.tasks[id].pc = "n_complete"]

\* lines 74-76: the guard loop of navigate, from guard number gi on
NavRunGuards(st, id, gi) ==
    IF gi <= Len(st.routerMiddlewares)
    THEN [st EXCEPT !.tasks[id].pc = "n_guard",
                    !.tasks[id].gi = gi,
                    !.tasks[id].guardLog = Append(@, st.routerMiddlewares[gi])]
    ELSE NavCommit(st, id)

\* The catch swallows what the guard threw and the loop goes on
NavCatchContinues(st, id, message, outcome) ==
    NavRunGuards(st, id, st.tasks[id].gi + 1)

\* lines 107-118: catch
NavCatch(st, id, message, outcome) ==
    IF message # "Navigation cancelled"
    THEN [st EXCEPT !.tasks[id].emitted = @ \cup {"router:navigation-error"},
                    !.tasks[id].pc = "n_error"]
    ELSE NavFinally(st, id, outcome)

\* lines 45-76: a call of navigate, run up to its first await
RECURSIVE NavigateCall(_, _, _, _)
NavigateCall(st, path, replace, force) ==
    LET gate == NavGate(st, path, force)
        m    == findMatchingRoute(st.routes, path)
    IN IF gate # "start"
       THEN [st EXCEPT !.ended = Ended(NewTask("nav", path, replace, NoMatch),
                                       gate, "none")]
       ELSE
         LET id == Len(st.tasks) + 1
             s1 == [st EXCEPT !.navigationLock = TRUE,
                              !.started = @ + 1,
                              !.tasks = Append(@, NewTask("nav", path, replace, m))]
         IN IF m.route = NoRoute
            THEN LET s2 == NavigateCall(s1, P404, FALSE, TRUE)
                 IN [s2 EXCEPT !.tasks[id].pc = "n_await404"]
            ELSE NavRunGuards(s1, id, 1)

\* One step of a navigate task, from the await it is suspended at
NavStep(st, id, g) ==
    LET t == st.tasks[id]
    IN CASE t.pc = "n_guard" ->
              (CASE g = "pass"     -> NavRunGuards(st, id, t.gi + 1)
                 [] g = "cancel"   -> NavCatch(st, id, "Navigation cancelled",
                                               "cancelled")
                 [] g = "redirect" -> NavCatch(NavigateCall(st, PLogin, FALSE, TRUE),
                                               id, "Navigation cancelled",
                                               "redirected")
                 [] g = "fault"    -> NavCatch(st, id, "fault", "fault"))
         [] t.pc = "n_await404" -> NavFinally(st, id, "notfound")
         [] t.pc = "n_complete" -> NavFinally(st, id, "ok")
         [] t.pc = "n_error"    -> NavFinally(st, id, "fault")

-----------------------------------------------------------------------------
(* VaniRouter._handleRoute *)

Screen(component) == <<"screen", component>>
Builtin404 == <<"builtin", "404">>
Builtin500 == <<"builtin", "500">>

\* lines 278, 297: the guards _handleRoute runs, in the order it runs them
HandleRouteGuards(st, route) == route.middlewares \o st.routerMiddlewares

\* lines 276-320: the guard loops of _handleRoute, from guard number gi on
HandleRunGuards(st, id, gi) ==
    LET guards == HandleRouteGuards(st, st.tasks[id].route)
    IN IF gi <= Len(guards)
       THEN [st EXCEPT !.tasks[id].pc = "h_guard",
                       !.tasks[id].gi = gi,
                       !.tasks[id].guardLog = Append(@, guards[gi])]
       ELSE [st EXCEPT !.tasks[id].pc = "h_render"]

\* lines 213-286: a call of _handleRoute, run up to the first guard (or up
\* to the await before the render); the match only reads routes, which no
\* running task writes
HandleRouteCall(st) ==
    LET path == IF st.location = NoPath THEN PRoot ELSE st.location
        m    == findMatchingRoute(st.routes, path)
        id   == Len(st.tasks) + 1
        s1   == [st EXCEPT !.started = @ + 1,
                           !.tasks = Append(@, NewTask("handle", path, FALSE, m))]
    IN IF m.route = NoRoute
       THEN [s1 EXCEPT !.tasks[id].pc = "h_notfound",
                       !.tasks[id].emitted = {"router:not-found"}]
       ELSE HandleRunGuards(s1, id, 1)

\* lines 322-362: render the matched screen, record the location, complete
HandleRender(st, id) ==
    LET t == st.tasks[id]
    IN Finish([st EXCEPT !.container = Screen(t.route.component),
                         !.committed = t.route.component,
                         !.currentComponent = t.route.component,
                         !.currentRoute = t.path,
                         !.params = t.params,
                         !.tasks[id].emitted =
                             @ \cup {"router:complete", "route:change"}],
              id, "ok", "screen")

\* The catch of _handleRoute releases the navigation lock
HandleCatchUnlocks(st, id, pc) ==
    [st EXCEPT !.tasks[id].emitted = @ \cup {"router:error"},
               !.tasks[id].pc = pc,
               !.navigationLock = FALSE]

\* lines 364-373: catch
HandleCatch(st, id, pc) ==
    [st EXCEPT !.tasks[id].emitted = @ \cup {"router:error"},
               !.tasks[id].pc = pc]

\* lines 375-391: the error screen
HandleErrorScreen(st, id, outcome) ==
    IF HasRoute(st.routes, P500)
    THEN Finish([st EXCEPT !.container = Screen("ErrorPage"),
                           !.committed = "ErrorPage",
                           !.currentComponent = "ErrorPage"],
                id, outcome, "error")
    ELSE Finish([st EXCEPT !.container = Builtin500], id, outcome, "error")

\* lines 232-260: the not-found screen
HandleNotFound(st, id) ==
    IF HasRoute(st.routes, P404)
    THEN Finish([st EXCEPT !.container = Screen("NotFoundPage"),
                           !.committed = "NotFoundPage",
                           !.currentComponent = "NotFoundPage"],
                id, "notfound", "notfound")
    ELSE Finish([st EXCEPT !.container = Builtin404],
                id, "notfound", "notfound")

\* One step of a _handleRoute task, from the await it is suspended at
HandleStep(st, id, g) ==
    LET t == st.tasks[id]
    IN CASE t.pc = "h_guard" ->
              (CASE g = "pass"     -> HandleRunGuards(st, id, t.gi + 1)
                 [] g = "cancel"   -> HandleCatch(st, id, "h_cancelled")
                 [] g = "redirect" -> HandleCatch(NavigateCall(st, PLogin, FALSE, FALSE),
                                                  id, "h_redirected")
                 [] g = "fault"    -> HandleCatch(st, id, "h_fault"))
         [] t.pc = "h_render"     -> HandleRender(st, id)
         [] t.pc = "h_cancelled"  -> HandleErrorScreen(st, id, "cancelled")
         [] t.pc = "h_redirected" -> HandleErrorScreen(st, id, "redirected")
         [] t.pc = "h_fault"      -> HandleErrorScreen(st, id, "fault")
         [] t.pc = "h_notfound"   -> HandleNotFound(st, id)

-----------------------------------------------------------------------------
(* Virtual nodes and host nodes *)

\* A property value: a string, a function (by identity), null or undefined
StrVal(s)  == [t |-> "string", v |-> s]
FnVal(f)   == [t |-> "function", v |-> f]
NullVal    == [t |-> "null", v |-> ""]
Undefined  == [t |-> "undefined", v |-> ""]

\* props[key]; a property bag is a set of <<key, value>> pairs
PropVal(props, key) ==
    IF \E p \in props : p[1] = key
    THEN (CHOOSE p \in props : p[1] = key)[2]
    ELSE Undefined

PropKeys(props) == { p[1] : p \in props }

\* String(value), as setAttribute applies it
StringOf(val) ==
    CASE val.t = "null"      -> "null"
      [] val.t = "undefined" -> "undefined"
      [] OTHER               -> val.v

\* A virtual node: a string or number primitive, or what createElement
\* returns.  A number carries its decimal numeral.
Str(s) == [kind |-> "string", value |-> s, tag |-> "", props |-> {},
           children |-> <<>>]
Num(n) == [kind |-> "number", value |-> n, tag |-> "", props |-> {},
           children |-> <<>>]
NoVNode == [kind |-> "undefined", value |-> "", tag |-> "", props |-> {},
            children |-> <<>>]

\* lines 75-85 (children already flat and free of null and booleans)
createElement(tag, props, children) ==
    [kind |-> "object", value |-> "", tag |-> tag, props |-> props,
     children |-> children]

\* !vnode: undefined, the empty string and the number 0 are falsy
Falsy(v) ==
    \/ v.kind = "undefined"
    \/ v.kind = "string" /\ v.value = ""
    \/ v.kind = "number" /\ v.value = "0"

\* A host node: a text node or an element
TextNode(s) == [kind |-> "text", tag |-> "", text |-> s, attrs |-> {},
                className |-> "", listeners |-> {}, children |-> <<>>]
Element(tag) == [kind |-> "element", tag |-> tag, text |-> "", attrs |-> {},
                 className |-> "", listeners |-> {}, children |-> <<>>]
NoNode == [kind |-> "null", tag |-> "", text |-> "", attrs |-> {},
           className |-> "", listeners |-> {}, children |-> <<>>]

FirstChild(node) == IF node.children = <<>> THEN NoNode ELSE node.children[1]

SetAttr(attrs, key, s) == { a \in attrs : a[1] # key } \cup {<<key, s>>}

\* key.startsWith('on')
StartsWithOn(key) == key \in {"onClick"}

\* key.toLowerCase().substring(2)
EventType(key) == CASE key = "onClick" -> "click"

\* Object.keys order of the properties the model uses
KeyOrder == <<"title", "className", "onClick", "key">>

KeysIn(keys) == SelectSeq(KeyOrder, LAMBDA k : k \in keys)

\* lines 129-140: one property of a new element
CreateProp(el, key, val) ==
    IF StartsWithOn(key) /\ val.t = "function"
    THEN [el EXCEPT !.listeners = @ \cup {<<EventType(key), val.v>>}]
    ELSE IF key = "className"
    THEN [el EXCEPT !.className = StringOf(val)]
    ELSE IF key # "key" /\ key # "children"
    THEN [el EXCEPT !.attrs = SetAttr(@, key, StringOf(val))]
    ELSE el

RECURSIVE CreateProps(_, _, _)
CreateProps(el, props, keys) ==
    IF keys = <<>> THEN el
    ELSE CreateProps(CreateProp(el, Head(keys), PropVal(props, Head(keys))),
                     props, Tail(keys))

\* lines 112-151
RECURSIVE createDOM(_)
createDOM(vnode) ==
    IF vnode.kind \in {"string", "number"} THEN TextNode(vnode.value)
    ELSE IF vnode.kind = "undefined" THEN TextNode("")
    ELSE LET el == CreateProps(Element(vnode.tag), vnode.props,
                               KeysIn(PropKeys(vnode.props)))
         IN [el EXCEPT !.children =
                [i \in 1..Len(vnode.children) |-> createDOM(vnode.children[i])]]

\* The outcome of a host operation: the node operated on, the number of
\* host mutations made, and whether the operation threw
Res(node, n, fault) == [node |-> node, muts |-> n, fault |-> fault]

\* parent.appendChild(node); null and text nodes take no children
AppendChild(parent, node) ==
    IF parent.kind = "element"
    THEN Res([parent EXCEPT !.children = Append(@, node)], 1, FALSE)
    ELSE Res(parent, 0, TRUE)

\* lines 163-165: if (parent.firstChild) parent.removeChild(parent.firstChild)
RemoveFirstChild(parent) ==
    IF parent.kind = "null" THEN Res(parent, 0, TRUE)
    ELSE IF parent.children = <<>> THEN Res(parent, 0, FALSE)
    ELSE Res([parent EXCEPT !.children = Tail(@)], 1, FALSE)

\* line 171: parent.replaceChild(node, parent.firstChild)
ReplaceFirstChild(parent, node) ==
    IF parent.kind = "null" \/ parent.children = <<>> THEN Res(parent, 0, TRUE)
    ELSE Res([parent EXCEPT !.children[1] = node], 1, FALSE)

\* lines 188-195
isVNodeChanged(old, new) ==
    IF old.kind # new.kind THEN TRUE
    ELSE IF old.kind \in {"string", "number"} THEN old.value # new.value
    ELSE IF old.tag # new.tag THEN TRUE
    ELSE PropVal(old.props, "key") # PropVal(new.props, "key")

\* lines 203-231: one key of updateProperties
UpdateProp(r, key, oldValue, newValue) ==
    LET el == r.node
    IN IF r.fault THEN r
       ELSE IF newValue.t \in {"undefined", "null"}
       THEN IF StartsWithOn(key)
            THEN Res([el EXCEPT !.listeners =
                         @ \ {<<EventType(key), oldValue.v>>}],
                     r.muts + 1, FALSE)
            ELSE IF key = "className"
            THEN Res([el EXCEPT !.className = ""], r.muts + 1, FALSE)
            ELSE IF el.kind = "element"
            THEN Res([el EXCEPT !.attrs = { a \in @ : a[1] # key }],
                     r.muts + 1, FALSE)
            ELSE Res(el, r.muts, TRUE)
       ELSE IF oldValue # newValue
       THEN IF StartsWithOn(key) /\ newValue.t = "function"
            THEN Res([el EXCEPT !.listeners =
                         (@ \ {<<EventType(key), oldValue.v>>})
                             \cup {<<EventType(key), newValue.v>>}],
                     r.muts + (IF oldValue.t \in {"undefined", "null"}
                               THEN 1 ELSE 2),
                     FALSE)
            ELSE IF key = "className"
            THEN Res([el EXCEPT !.className = StringOf(newValue)],
                     r.muts + 1, FALSE)
            ELSE IF key # "key"
            THEN IF el.kind = "element"
                 THEN Res([el EXCEPT !.attrs = SetAttr(@, key, StringOf(newValue))],
                          r.muts + 1, FALSE)
                 ELSE Res(el, r.muts, TRUE)
            ELSE r
       ELSE r

RECURSIVE UpdateProps(_, _, _, _)
UpdateProps(r, oldProps, newProps, keys) ==
    IF keys = <<>> THEN r
    ELSE UpdateProps(UpdateProp(r, Head(keys), PropVal(oldProps, Head(keys)),
                                PropVal(newProps, Head(keys))),
                     oldProps, newProps, Tail(keys))

\* lines 197-233
updateProperties(element, oldProps, newProps) ==
    IF element.kind = "null" THEN Res(element, 0, FALSE)
    ELSE UpdateProps(Res(element, 0, FALSE), oldProps, newProps,
                     KeysIn(PropKeys(oldProps) \cup PropKeys(newProps)))

\* children[i], undefined when out of range
ChildAt(children, i) == IF i <= Len(children) THEN children[i] ELSE NoVNode

MaxOf(a, b) == IF a >= b THEN a ELSE b

RECURSIVE patch(_, _, _)
RECURSIVE PatchChildren(_, _, _, _)

\* lines 182-184: the child loop, on the element that is parent.firstChild
PatchChildren(r, oldChildren, newChildren, i) ==
    IF r.fault \/ i > MaxOf(Len(oldChildren), Len(newChildren)) THEN r
    ELSE LET p == patch(r.node, ChildAt(oldChildren, i), ChildAt(newChildren, i))
         IN PatchChildren(Res(p.node, r.muts + p.muts, p.fault),
                          oldChildren, newChildren, i + 1)

\* lines 153-186
patch(parent, oldVNode, newVNode) ==
    IF Falsy(oldVNode) /\ Falsy(newVNode) THEN Res(parent, 0, FALSE)
    ELSE IF Falsy(oldVNode) THEN AppendChild(parent, createDOM(newVNode))
    ELSE IF Falsy(newVNode) THEN RemoveFirstChild(parent)
    ELSE IF isVNodeChanged(oldVNode, newVNode)
    THEN ReplaceFirstChild(parent, createDOM(newVNode))
    ELSE IF newVNode.kind = "object" /\ newVNode.tag # ""
    THEN IF parent.kind = "null" THEN Res(parent, 0, TRUE)
         ELSE LET up == updateProperties(FirstChild(parent), oldVNode.props,
                                         newVNode.props)
                  ch == PatchChildren(up, oldVNode.children,
                                      newVNode.children, 1)
              IN Res(IF parent.children = <<>> THEN parent
                     ELSE [parent EXCEPT !.children[1] = ch.node],
                     ch.muts, ch.fault)
    ELSE Res(parent, 0, FALSE)

\* lines 87-110: render(vnode, container) as a change of the render state
Render(vnode) ==
    LET r == IF ~Falsy(vdomTree)
             THEN patch(host, vdomTree, vnode)
             ELSE Res([host EXCEPT !.children = <<createDOM(vnode)>>],
                      1 + (IF host.children = <<>> THEN 0 ELSE 1), FALSE)
    IN /\ host' = r.node
       /\ muts' = r.muts
       /\ renderFault' = r.fault
       /\ prevTree' = vdomTree
       /\ lastVNode' = vnode
       /\ vdomTree' = IF r.fault THEN vdomTree ELSE vnode

-----------------------------------------------------------------------------
(* Component state: values, slots and updaters *)

\* A JavaScript value held in a state slot: an object with its own fields (a
\* set of <<key, value>> pairs), a primitive, null, undefined or a function
JsObject(fields) == [t |-> "object", v |-> "", fields |-> fields]
JsPrim(t, v)     == [t |-> t, v |-> v, fields |-> {}]
JsUndefined      == JsPrim("undefined", "")
JsNull           == JsPrim("null", "")
JsFunction(f)    == JsPrim("function", f)

\* !!x
Truthy(x) ==
    CASE x.t = "object"   -> TRUE
      [] x.t = "function" -> TRUE
      [] x.t = "number"   -> x.v # "0"
      [] x.t = "string"   -> x.v # ""
      [] x.t = "boolean"  -> x.v = "true"
      [] OTHER            -> FALSE

\* The fields {...x} copies: null, undefined, numbers, booleans and ''
\* contribute none
OwnFields(x) == IF x.t = "object" THEN x.fields ELSE {}

\* The update object takes the place of the old state
SpreadReplaces(a, b) == JsObject(OwnFields(b))

\* line 319: { ...a, ...b }
Spread(a, b) ==
    JsObject({ f \in OwnFields(a) : \A g \in OwnFields(b) : g[1] # f[1] }
             \cup OwnFields(b))

\* The screens of the application that keep state
Screens == {"Counter", "Form"}

\* The function updaters the screens pass: s => 0 and s => ({a: s.a})
Updaters == {"zero", "keepA"}

\* line 318: newState(oldState)
ApplyUpdater(f, s) ==
    CASE f = "zero"  -> JsPrim("number", "0")
      [] f = "keepA" -> JsObject({ x \in OwnFields(s) : x[1] = "a" })

\* What a screen passes to useState: a value, or a producer of that value
InitialValues == { JsObject({<<"a", "1">>}), JsPrim("number", "0"), JsNull }

Initials == [producer : BOOLEAN, value : InitialValues]

\* What a screen passes to the updater: an object or a function
Updates == { JsObject({<<"b", "2">>}), JsObject({<<"a", "3">>}) }
           \cup { JsFunction(f) : f \in Updaters }

NoStateCall == [op |-> "none", name |-> "", outside |-> FALSE, fault |-> FALSE,
                before |-> JsUndefined, arg |-> JsUndefined, created |-> FALSE,
                emitted |-> <<>>, screen |-> ""]

\* executeHook('state:create' / 'state:update', stateKey, ...) as an event
StateEvent(hookName, name, old, new) ==
    [hook |-> hookName, key |-> name, old |-> old, new |-> new]

-----------------------------------------------------------------------------
(* The hook registry and executeHook *)

\* line 180: the priority of a handler that declares none
DefaultPriority == 50

\* The registered plugins (the keys of pluginSystem.plugins)
Plugins == {"p1", "p2"}

\* An owner name that registerHooks is called with and register never was
Unregistered == "app"

\* The hooks: one the application emits, the one executeHook emits for a
\* faulting handler, and the one setPluginEnabled emits
HookNames == {"data:sync", "hook:error", "plugin:status-changed"}

\* A handler function: whether it carries a priority property, its value,
\* and whether a call of it throws (or its promise rejects)
HookFn(declared, priority, faults) ==
    [declared |-> declared, priority |-> priority, faults |-> faults]

\* The registrations plugins make: registerHooks(plugin, {[hook]: function})
Subscriptions ==
    { [plugin |-> "p1", hook |-> "data:sync",  function |-> HookFn(TRUE, 0, FALSE)],
      [plugin |-> "p1", hook |-> "data:sync",  function |-> HookFn(FALSE, 0, TRUE)],
      [plugin |-> "p2", hook |-> "data:sync",  function |-> HookFn(TRUE, 10, FALSE)],
      [plugin |-> "p2", hook |-> "data:sync",  function |-> HookFn(TRUE, 60, TRUE)],
      [plugin |-> "p2", hook |-> "hook:error", function |-> HookFn(FALSE, 0, FALSE)],
      [plugin |-> "p1", hook |-> "hook:error", function |-> HookFn(TRUE, 10, TRUE)],
      [plugin |-> Unregistered, hook |-> "data:sync",
       function |-> HookFn(TRUE, 20, FALSE)] }

\* The hook system's state as a record, so that nested emissions compose
HCur == [hooks |-> hooks, pluginEnabled |-> pluginEnabled,
         emissions |-> emissions, emitDone |-> emitDone, emits |-> emits]

HBecomes(st) ==
    /\ hooks' = st.hooks
    /\ pluginEnabled' = st.pluginEnabled
    /\ emissions' = st.emissions
    /\ emitDone' = st.emitDone
    /\ emits' = st.emits
    /\ UNCHANGED <<routerVars, domVars, matchVars, stateVars, registryVars, breakerVars>>

\* Array.prototype.sort((a, b) => a.priority - b.priority), which is stable:
\* insertion of each element behind those that do not compare greater
RECURSIVE InsertByPriority(_, _)
InsertByPriority(sorted, e) ==
    IF sorted = <<>> THEN <<e>>
    ELSE IF Head(sorted).priority <= e.priority
         THEN <<Head(sorted)>> \o InsertByPriority(Tail(sorted), e)
         ELSE <<e>> \o sorted

RECURSIVE SortByPriority(_)
SortByPriority(seq) ==
    IF seq = <<>> THEN <<>>
    ELSE InsertByPriority(SortByPriority(SubSeq(seq, 1, Len(seq) - 1)),
                          seq[Len(seq)])

\* lines 171-186, for one entry of the hooks object; reg numbers the
\* registrations
registerHooks(st, pluginName, hookName, hookFunction, reg) ==
    LET entry == [plugin |-> pluginName, function |-> hookFunction,
                  priority |-> IF hookFunction.declared /\ hookFunction.priority # 0
                               THEN hookFunction.priority
                               ELSE DefaultPriority,
                  reg |-> reg]
    IN [st EXCEPT !.hooks[hookName] = SortByPriority(Append(@, entry))]

\* The frame of one executeHook call
NewEmission(hookName) ==
    [hook |-> hookName, pos |-> 0, log |-> <<>>, settled |-> 0, errors |-> 0,
     outcome |-> "running"]

NoEmission == NewEmission("")

\* lines 262-265: the plugin is registered and its enabled flag is set
isPluginEnabled(st, name) == name \in Plugins /\ st.pluginEnabled[name]

\* lines 197-200: the first subscriber at or after position from whose
\* plugin is enabled, 0 when there is none
NextEnabled(st, hookName, from) ==
    LET cand == { i \in from..Len(st.hooks[hookName]) :
                    isPluginEnabled(st, st.hooks[hookName][i].plugin) }
    IN IF cand = {} THEN 0
       ELSE CHOOSE i \in cand : \A j \in cand : i <= j

\* lines 197-203, 228: the loop goes on from position from: the next enabled
\* subscriber is called and awaited, or the call returns its results
Advance(st, e, from) ==
    LET em == st.emissions[e]
        i  == NextEnabled(st, em.hook, from)
    IN IF i = 0
       THEN [st EXCEPT !.emissions = RemoveAt(@, e),
                       !.emitDone = [em EXCEPT !.outcome = "returned"]]
       ELSE [st EXCEPT !.emissions[e].pos = i,
                       !.emissions[e].log = Append(@, st.hooks[em.hook][i])]

\* lines 189-203: a call of executeHook, run up to its first await
executeHook(st, hookName) ==
    IF st.hooks[hookName] = <<>> THEN st
    ELSE Advance([st EXCEPT !.emits = @ + 1,
                            !.emissions = Append(@, NewEmission(hookName))],
                 Len(st.emissions) + 1, 1)

\* The fault of a handler leaves executeHook
CatchRethrows(st, e) ==
    [st EXCEPT !.emissions = RemoveAt(@, e),
               !.emitDone = [st.emissions[e] EXCEPT !.outcome = "threw",
                                                    !.settled = @ + 1]]

\* lines 210-225: catch: the fault is recorded, hook:error is emitted (not
\* awaited) and the loop goes on
Catch(st, e) ==
    LET s1 == [st EXCEPT !.emissions[e].settled = @ + 1,
                         !.emissions[e].errors = @ + 1]
    IN Advance(executeHook(s1, "hook:error"), e, st.emissions[e].pos + 1)

\* The awaited handler of emission e settles
Settle(st, e) ==
    LET em == st.emissions[e]
    IN IF st.hooks[em.hook][em.pos].function.faults
       THEN Catch(st, e)
       ELSE Advance([st EXCEPT !.emissions[e].settled = @ + 1], e, em.pos + 1)

-----------------------------------------------------------------------------
(* The plugin registry: register, unregister, initializeAll *)

\* The plugins the application may register
PluginNames == {"a", "b", "c"}

NoPluginCall == [op |-> "none", name |-> "", result |-> FALSE, fault |-> FALSE]

\* The registry as a record, so that calls compose
PCur == [plugins |-> plugins, pluginStatus |-> pluginStatus,
         dependencies |-> dependencies, pluginLoadOrder |-> pluginLoadOrder,
         initialized |-> initialized, initLog |-> initLog,
         pluginCall |-> pluginCall, unregs |-> unregs]

Range(seq) == { seq[i] : i \in 1..Len(seq) }

\* this.plugins.has(name)
IsRegistered(st, name) == name \in Range(st.plugins)

\* The plugins whose init function throws
InitThrows == {"c"}

\* lines 67-114: initializePlugin(name); every plugin is enabled and has an
\* init function, which returns or throws
initializePlugin(st, name) ==
    IF ~IsRegistered(st, name) THEN st
    ELSE [st EXCEPT !.initLog = Append(@, name),
                    !.pluginStatus[name] = IF name \in InitThrows
                                            THEN "error"
                                            ELSE "initialized"]

\* lines 17-64: register(name, plugin, {dependencies: deps})
register(st, name, deps) ==
    IF IsRegistered(st, name)
    THEN [st EXCEPT !.pluginCall = [op |-> "register", name |-> name,
                                    result |-> FALSE, fault |-> FALSE]]
    ELSE IF \E i \in 1..Len(deps) : ~IsRegistered(st, deps[i])
    THEN [st EXCEPT !.pluginCall = [op |-> "register", name |-> name,
                                    result |-> FALSE, fault |-> TRUE]]
    ELSE LET s1 == [st EXCEPT !.dependencies[name] = deps,
                              !.plugins = Append(@, name),
                              !.pluginStatus[name] = "registered",
                              !.pluginCall = [op |-> "register", name |-> name,
                                              result |-> TRUE, fault |-> FALSE]]
         IN IF st.initialized THEN initializePlugin(s1, name) ELSE s1

\* lines 285-324: unregister(name)
unregister(st, name) ==
    IF IsRegistered(st, name)
    THEN [st EXCEPT !.plugins = SelectSeq(@, LAMBDA n : n # name),
                    !.pluginStatus[name] = "none",
                    !.dependencies[name] = <<>>,
                    !.unregs = @ + 1,
                    !.pluginCall = [op |-> "unregister", name |-> name,
                                    result |-> TRUE, fault |-> FALSE]]
    ELSE [st EXCEPT !.pluginCall = [op |-> "unregister", name |-> name,
                                    result |-> FALSE, fault |-> FALSE]]

\* The sets and the list of determineLoadOrder, and whether visit threw
NoVisits == [visited |-> {}, temp |-> {}, order |-> <<>>, fault |-> FALSE]

RECURSIVE Visit(_, _, _)
RECURSIVE VisitEach(_, _, _)

\* lines 151-153, 161-165: visit every name of a list in turn
VisitEach(deps, w, names) ==
    IF names = <<>> \/ w.fault THEN w
    ELSE VisitEach(deps, Visit(deps, w, Head(names)), Tail(names))

\* lines 142-159: visit(name)
Visit(deps, w, name) ==
    IF name \in w.temp THEN [w EXCEPT !.fault = TRUE]
    ELSE IF name \in w.visited THEN w
    ELSE LET w1 == VisitEach(deps, [w EXCEPT !.temp = @ \cup {name}], deps[name])
         IN IF w1.fault THEN w1
            ELSE [w1 EXCEPT !.temp = @ \ {name},
                            !.visited = @ \cup {name},
                            !.order = Append(@, name)]

\* lines 137-168: the outcome of determineLoadOrder
LoadOrder(st) == VisitEach(st.dependencies, NoVisits, st.plugins)

RECURSIVE InitializeEach(_, _)
\* lines 127-129
InitializeEach(st, names) ==
    IF names = <<>> THEN st
    ELSE InitializeEach(initializePlugin(st, Head(names)), Tail(names))

\* lines 117-134: initializeAll()
initializeAll(st) ==
    IF st.initialized
    THEN [st EXCEPT !.pluginCall = [op |-> "initializeAll", name |-> "",
                                    result |-> FALSE, fault |-> FALSE]]
    ELSE LET w == LoadOrder(st)
         IN IF w.fault
            THEN [st EXCEPT !.pluginCall = [op |-> "initializeAll", name |-> "",
                                            result |-> FALSE, fault |-> TRUE]]
            ELSE [InitializeEach([st EXCEPT !.pluginLoadOrder = w.order], w.order)
                     EXCEPT !.initialized = TRUE,
                            !.pluginCall = [op |-> "initializeAll", name |-> "",
                                            result |-> TRUE, fault |-> FALSE]]

-----------------------------------------------------------------------------
(* errorMiddlewares.circuitBreaker *)

\* options.failureThreshold and options.resetTimeout of the guard
FailureThreshold == 2
ResetTimeout == 1

\* A step of the guard: a call rejected with CIRCUIT_OPEN, a call that went
\* on to next(), or the success or failure of an awaited next(); entered is
\* the state the call found itself in when it went on to next()
BreakerStep(op, entered) == [op |-> op, entered |-> entered]

NoBreakerStep == BreakerStep("none", "")

-----------------------------------------------------------------------------
(* The state machine *)

\* The reconciler and the lookup record after construction
InitAux ==
    /\ vdomTree = NoVNode
    /\ prevTree = NoVNode
    /\ lastVNode = NoVNode
    /\ host = Element("div")
    /\ muts = 0
    /\ renderFault = FALSE
    /\ matchPath = NoPath
    /\ matchResult = NoMatch
    /\ state = [name \in Screens |-> JsUndefined]
    /\ setters = {}
    /\ creates = [name \in Screens |-> 0]
    /\ stateCall = NoStateCall
    /\ stateCalls = 0
    /\ rendering = <<>>
    /\ hooks = [h \in HookNames |-> <<>>]
    /\ pluginEnabled = [name \in Plugins |-> TRUE]
    /\ emissions = <<>>
    /\ emitDone = NoEmission
    /\ emits = 0
    /\ plugins = <<>>
    /\ pluginStatus = [name \in PluginNames |-> "none"]
    /\ dependencies = [name \in PluginNames |-> <<>>]
    /\ pluginLoadOrder = <<>>
    /\ initialized = FALSE
    /\ initLog = <<>>
    /\ pluginCall = NoPluginCall
    /\ unregs = 0
    /\ cbState = "CLOSED"
    /\ failureCount = 0
    /\ nextAttempt = 0
    /\ clock = 0
    /\ cbCalls = <<>>
    /\ cbLast = NoBreakerStep
    /\ cbStarted = 0

\* The state after construction, but for the routes the application registers
InitOther ==
    /\ routerMiddlewares = GlobalGuards
    /\ navigationLock = FALSE
    /\ currentRoute = NoPath
    /\ params = {}
    /\ history = <<>>
    /\ location = NoPath
    /\ pendingEvents = 1
    /\ container = <<"empty", "">>
    /\ committed = ""
    /\ currentComponent = ""
    /\ tasks = <<>>
    /\ ended = NoneEnded
    /\ started = 0
    /\ InitAux

Init ==
    /\ \E fallbacks \in BOOLEAN : routes = RouteConfig(fallbacks)
    /\ InitOther

\* The application calls router.navigate(path, replace, {force})
Navigate(path, replace, force) ==
    /\ NavGate(Cur, path, force) = "start" => started < MaxTasks
    /\ Becomes(NavigateCall(Cur, path, replace, force))

\* The user changes the location; the browser queues a hashchange event
LocationChange(path) ==
    /\ path # location
    /\ pendingEvents + started < MaxTasks
    /\ Becomes([Cur EXCEPT !.location = path, !.pendingEvents = @ + 1])

\* A queued load / hashchange event reaches handleRouteChange
DeliverEvent ==
    /\ pendingEvents > 0
    /\ started < MaxTasks
    /\ Becomes(HandleRouteCall([Cur EXCEPT !.pendingEvents = @ - 1]))

\* A state updater re-navigates: updateComponent -> handleRoute -> _handleRoute
UpdateComponent ==
    /\ currentComponent # ""
    /\ started < MaxTasks
    /\ Becomes(HandleRouteCall(Cur))

\* The guard outcomes a step of task id may take
StepChoices(id) ==
    IF tasks[id].pc \in {"n_guard", "h_guard"}
    THEN { g \in GuardOutcomes :
             (g = "redirect" /\ tasks[id].kind = "handle"
                 /\ NavGate(Cur, PLogin, FALSE) = "start")
             => started < MaxTasks }
    ELSE {"pass"}

\* A suspended task resumes and runs to its next await or to its end
TaskStep(id) ==
    /\ id \in 1..Len(tasks)
    /\ \E g \in StepChoices(id) :
          Becomes(IF tasks[id].kind = "nav" THEN NavStep(Cur, id, g)
                                            ELSE HandleStep(Cur, id, g))

Next ==
    \/ \E path \in NavTargets, replace, force \in BOOLEAN :
           Navigate(path, replace, force)
    \/ \E path \in LocationTargets : LocationChange(path)
    \/ DeliverEvent
    \/ UpdateComponent
    \/ \E id \in 1..MaxTasks : TaskStep(id)

Spec == Init /\ [][Next]_vars

\* Programmatic navigation and the handling of the location changes it
\* causes, where every guard and hook handler that is awaited returns or
\* throws: a suspended task is eventually resumed.
Resume == \E id \in 1..MaxTasks : TaskStep(id)

NavNext ==
    \/ \E path \in NavTargets, replace, force \in BOOLEAN :
           Navigate(path, replace, force)
    \/ DeliverEvent
    \/ Resume

FairSpec == Init /\ [][NavNext]_vars /\ WF_vars(Resume)

-----------------------------------------------------------------------------
(* The reconciler on its own: a first mount, then one re-render *)

NoProps == {}

\* The property bags of the root element
RootProps ==
    { NoProps,
      {<<"title", StrVal("x")>>}, {<<"title", StrVal("y")>>},
      {<<"title", NullVal>>},
      {<<"className", StrVal("c")>>},
      {<<"onClick", FnVal("f1")>>}, {<<"onClick", FnVal("f2")>>},
      {<<"key", StrVal("k1")>>}, {<<"key", StrVal("k2")>>} }

\* The nodes that occur as children of the root
ChildNodes ==
    { Str("a"), Str("b"), Num("0"),
      createElement("span", NoProps, <<>>),
      createElement("span", {<<"title", StrVal("x")>>}, <<Str("a")>>) }

RECURSIVE SeqsUpTo(_, _)
SeqsUpTo(S, n) ==
    IF n = 0 THEN {<<>>}
    ELSE LET shorter == SeqsUpTo(S, n - 1)
         IN shorter \cup { Append(q, x) : q \in shorter, x \in S }

Trees ==
    { createElement("div", p, <<>>) : p \in RootProps }
    \cup { createElement("div", NoProps, c) : c \in SeqsUpTo(ChildNodes, MaxWidth) }
    \cup { createElement("p", NoProps, <<Str("a")>>), Str("a"), Str("b") }

\* The first render(vnode, container) of the mount target
RenderFirst(vnode) ==
    /\ vdomTree = NoVNode
    /\ Render(vnode)
    /\ UNCHANGED <<routerVars, matchVars, stateVars, hookVars, registryVars, breakerVars>>

\* A second render(vnode, container) into the same mount target
RenderAgain(vnode) ==
    /\ vdomTree # NoVNode
    /\ prevTree = NoVNode
    /\ Render(vnode)
    /\ UNCHANGED <<routerVars, matchVars, stateVars, hookVars, registryVars, breakerVars>>

RenderInit == Init /\ routes = RouteConfig(TRUE)

RenderNext ==
    \/ \E vnode \in Trees : RenderFirst(vnode)
    \/ \E vnode \in Trees : RenderAgain(vnode)

SpecRender == RenderInit /\ [][RenderNext]_vars

\* The host tree a first mount of vnode produces
Mounted(vnode) == [Element("div") EXCEPT !.children = <<createDOM(vnode)>>]

\* C9: after render(Old) and render(New) the host tree under the mount
\* target equals the host tree a first mount of New produces.
C9_RerenderEqualsMount ==
    prevTree # NoVNode => (~renderFault /\ host = Mounted(lastVNode))

\* C10: rendering the same tree a second time makes no host mutation.
C10_SameTreeNoMutation ==
    (prevTree # NoVNode /\ prevTree = lastVNode) => (~renderFault /\ muts = 0)

\* new differs from old in the value of the primitive child at index i only
OnlyTextChildChanged(old, new, i) ==
    /\ old.kind = "object" /\ new.kind = "object"
    /\ old.tag = new.tag /\ old.props = new.props
    /\ Len(old.children) = Len(new.children)
    /\ i \in 1..Len(old.children)
    /\ old.children[i].kind \in {"string", "number"}
    /\ new.children[i].kind \in {"string", "number"}
    /\ old.children[i].value # new.children[i].value
    /\ \A j \in 1..Len(old.children) : j # i => old.children[j] = new.children[j]

\* C11: re-rendering an element with only the value of its primitive child at
\* index i changed replaces the host text at index i with the new value and
\* leaves every other host child, and the order of the children, unchanged.
C11_TextChildReplacedInPlace ==
    \A i \in 1..Len(prevTree.children) :
        (prevTree # NoVNode /\ OnlyTextChildChanged(prevTree, lastVNode, i)) =>
            /\ ~renderFault
            /\ host = [Mounted(prevTree) EXCEPT !.children[1].children[i] =
                          TextNode(lastVNode.children[i].value)]


-----------------------------------------------------------------------------
(* Route registration and matching on their own *)

MaxRoutes == 3

\* The paths registered: '/', '/item/:id', '/item/42' and '/:name/42'
RoutePool == {PRoot, PItem, PItem42, PAny42}

\* The paths looked up: '/', '/item/42', '/item/7', '/item', '/item/',
\* '/item/42/x' and 'constructor'
QueryPaths == {PRoot, PItem42, <<"item", "7">>, <<"item">>, <<"item", "">>,
               <<"item", "42", "x">>, PConstructor}

\* router.defineRoute(path, component) before any lookup
DefineRoute(path) ==
    /\ matchPath = NoPath
    /\ Len(routes) < MaxRoutes
    /\ ~HasRoute(routes, path)
    /\ routes' = defineRoute(routes, path, "Screen", <<>>)
    /\ UNCHANGED <<routerMiddlewares, navigationLock, currentRoute, params,
                   history, location, pendingEvents, container, committed,
                   currentComponent, tasks, ended, started>>
    /\ UNCHANGED <<domVars, matchVars, stateVars, hookVars, registryVars, breakerVars>>

\* router.findMatchingRoute(path)
FindMatchingRoute(path) ==
    /\ matchPath' = path
    /\ matchResult' = findMatchingRoute(routes, path)
    /\ UNCHANGED <<routerVars, domVars, stateVars, hookVars, registryVars, breakerVars>>

MatchInit == routes = <<>> /\ InitOther

MatchNext ==
    \/ \E path \in RoutePool : DefineRoute(path)
    \/ \E path \in QueryPaths : FindMatchingRoute(path)

SpecMatch == MatchInit /\ [][MatchNext]_vars

\* The path has as many segments as the pattern, equal to the pattern's
\* literal segments and non-empty where the pattern has a parameter
FitsWhole(pattern, path) ==
    /\ Rooted(path)
    /\ Len(path) = Len(pattern)
    /\ \A j \in 1..Len(pattern) :
          IF pattern[j] \in ParamSegs THEN path[j] # "" ELSE path[j] = pattern[j]

\* The parameters a fitting path gives the pattern's names
ParamsOf(pattern, path) ==
    { <<ParamName(pattern[j]), path[j]>> :
        j \in { k \in 1..Len(pattern) : pattern[k] \in ParamSegs } }

\* C12: a route with a named parameter segment is returned only for a path
\* that fits its whole pattern, with one non-empty segment per parameter, and
\* then the parameters are those segments; '/item/42' is matched by
\* '/item/:id' with {id: '42'} when no exact or earlier route takes it, and
\* '/item', '/item/' and '/item/42/x' are never matched by '/item/:id'.
C12_ParamSegmentMatchesWholePath ==
    matchPath # NoPath =>
        /\ \A i \in 1..Len(routes) :
              (routes[i].params # <<>> /\ matchResult.route = routes[i]
                  /\ matchPath # routes[i].originalPath) =>
                 /\ FitsWhole(routes[i].originalPath, matchPath)
                 /\ matchResult.params = ParamsOf(routes[i].originalPath, matchPath)
        /\ (matchPath = PItem42 /\ HasRoute(routes, PItem)
               /\ ~HasRoute(routes, PItem42)
               /\ (HasRoute(routes, PAny42) =>
                      IndexOfRoute(routes, PItem) < IndexOfRoute(routes, PAny42))) =>
              /\ matchResult.route.originalPath = PItem
              /\ matchResult.params = {<<"id", "42">>}
        /\ matchPath \in {<<"item">>, <<"item", "">>, <<"item", "42", "x">>} =>
              matchResult.route.originalPath # PItem

\* '/item/42' was looked up and '/item/:id' returned with {id: '42'}
C12_Witness ==
    /\ matchPath = PItem42
    /\ matchResult.route.originalPath = PItem
    /\ matchResult.params = {<<"id", "42">>}

\* C13: findMatchingRoute returns the route registered under exactly the
\* path if there is one, otherwise the first route in registration order
\* whose pattern fits the path, otherwise no route.
C13_ExactThenFirstPattern ==
    matchPath # NoPath =>
        IF \E i \in 1..Len(routes) : routes[i].originalPath = matchPath
        THEN matchResult.route.originalPath = matchPath
        ELSE IF \E i \in 1..Len(routes) : FitsWhole(routes[i].originalPath, matchPath)
        THEN \E i \in 1..Len(routes) :
                /\ FitsWhole(routes[i].originalPath, matchPath)
                /\ \A j \in 1..(i - 1) : ~FitsWhole(routes[j].originalPath, matchPath)
                /\ matchResult.route = routes[i]
        ELSE matchResult.route = NoRoute

-----------------------------------------------------------------------------
(* VaniRouter.back *)

MaxHistory == 3

\* back() pops one entry only and navigates to the new last entry
BackCallSinglePop(st) ==
    IF Len(st.history) > 1
    THEN LET n        == Len(st.history)
             previous == st.history[n - 1]
         IN NavigateCall([st EXCEPT !.history = SubSeq(@, 1, n - 1)],
                         IF previous = NoPath THEN PRoot ELSE previous,
                         FALSE, FALSE)
    ELSE NavigateCall(st, PRoot, FALSE, FALSE)

\* lines 148-156
BackCall(st) ==
    IF Len(st.history) > 1
    THEN LET n        == Len(st.history)
             previous == st.history[n - 1]
         IN NavigateCall([st EXCEPT !.history = SubSeq(@, 1, n - 2)],
                         IF previous = NoPath THEN PRoot ELSE previous,
                         FALSE, FALSE)
    ELSE NavigateCall(st, PRoot, FALSE, FALSE)

\* The application calls router.back()
Back ==
    /\ NavGate(Cur, IF Len(history) > 1 THEN history[Len(history) - 1] ELSE PRoot,
               FALSE) = "start" => started < MaxTasks
    /\ Becomes(BackCall(Cur))

\* The paths earlier navigations have committed
HistoryPaths == {PRoot, PLogin, PItem42}

\* The router after the navigations recorded in the history have completed
\* and the location changes they caused have been handled
BackInit ==
    \E h \in SeqsUpTo(HistoryPaths, MaxHistory) :
        LET at == IF h = <<>> THEN PRoot ELSE h[Len(h)]
            m  == findMatchingRoute(RouteConfig(TRUE), at)
        IN /\ routes = RouteConfig(TRUE)
           /\ routerMiddlewares = GlobalGuards
           /\ navigationLock = FALSE
           /\ currentRoute = at
           /\ params = m.params
           /\ history = h
           /\ location = IF h = <<>> THEN NoPath ELSE at
           /\ pendingEvents = 0
           /\ container = Screen(m.route.component)
           /\ committed = m.route.component
           /\ currentComponent = m.route.component
           /\ tasks = <<>>
           /\ ended = NoneEnded
           /\ started = 0
           /\ InitAux

BackNext ==
    \/ Back
    \/ DeliverEvent
    \/ Resume

SpecBack == BackInit /\ [][BackNext]_vars

\* navigate(path) was called in st from the current state: an attempt for
\* path has started, or the call returned because path is the current route
NavigatedTo(st, path) ==
    IF currentRoute = path
    THEN st.ended.outcome = "noop" /\ st.tasks = tasks
    ELSE /\ Len(st.tasks) = Len(tasks) + 1
         /\ st.tasks[Len(st.tasks)].kind = "nav"
         /\ st.tasks[Len(st.tasks)].path = path
         /\ st.navigationLock

\* C14: with no navigation in flight, back() on a history of at least two
\* entries removes the last two entries and navigates to the removed
\* second-to-last entry; on a shorter history it navigates to '/' and
\* removes nothing.
C14_BackPopsTwoNavigatesOnce ==
    ~navigationLock =>
        LET st == BackCall(Cur)
            n  == Len(history)
        IN IF n >= 2
           THEN /\ st.history = SubSeq(history, 1, n - 2)
                /\ NavigatedTo(st, history[n - 1])
           ELSE /\ st.history = history
                /\ NavigatedTo(st, PRoot)

\* back() from ['/', '/login', '/item/42'] has left ['/'] and an attempt
\* for '/login' in flight
C14_Witness ==
    /\ history = <<PRoot>>
    /\ currentRoute = PItem42
    /\ Len(tasks) = 1
    /\ tasks[1].kind = "nav" /\ tasks[1].path = PLogin /\ tasks[1].pc = "n_guard"

-----------------------------------------------------------------------------
(* Navigation engine: mutual exclusion *)

\* C1: a navigate call made while navigationLock is held is a no-op: it starts
\* no attempt, runs no guard, emits no event and leaves history, currentRoute,
\* params, the location, the mount target and the lock as they were.
C1_LockedNavigateIsNoOp ==
    navigationLock =>
        \A path \in NavTargets \cup {PRoot, P404}, replace, force \in BOOLEAN :
            LET st == NavigateCall(Cur, path, replace, force)
            IN /\ st.ended.outcome = "locked"
               /\ st.ended.emitted = {}
               /\ [st EXCEPT !.ended = ended] = Cur

\* A first navigate has committed and awaits its completion hook; a second
\* navigate call has returned at the lock gate.
C1_Witness ==
    /\ navigationLock
    /\ ended.kind = "nav" /\ ended.outcome = "locked"
    /\ \E i \in 1..Len(tasks) : tasks[i].kind = "nav" /\ tasks[i].pc = "n_complete"

\* C2: at most one navigation attempt (navigate or _handleRoute) has started
\* and not finished.
C2_OneAttemptInFlight == Len(tasks) <= 1

\* C3: provided every awaited guard and hook handler returns or throws, an
\* attempt that set navigationLock clears it: locked leads to unlocked.
C3_LockIsReleased == navigationLock ~> ~navigationLock

\* A navigate attempt that held the lock has ended in a guard fault, and the
\* lock is free again.
C3_Witness ==
    /\ ~navigationLock
    /\ ended.kind = "nav" /\ ended.outcome = "fault"
    /\ "router:navigation-error" \in ended.emitted

-----------------------------------------------------------------------------
(* Navigation engine: guards, redirects and faults *)

\* A navigate or _handleRoute call that was suspended returns in this step
AttemptEnds == Len(tasks') < Len(tasks)

ErrorEvents == {"router:navigation-error", "router:error"}

\* C4: an attempt whose guard called redirect('/login') and threw the
\* cancellation marker ends with the location at '/login' and has not
\* rendered the screen of the path it was asked for.
C4_RedirectEndsAtLogin ==
    [][(AttemptEnds /\ ended'.outcome = "redirected") =>
           (location' = PLogin /\ ended'.rendered # "screen")]_vars

\* C5: with '/404' registered, a navigate to a path no route matches returns
\* with currentRoute and the last history entry at '/404' and the lock free.
C5_NoMatchNavigatesTo404 ==
    [][(AttemptEnds /\ ended'.kind = "nav" /\ ended'.outcome = "notfound"
            /\ HasRoute(routes, P404)) =>
           /\ currentRoute' = P404
           /\ history' # <<>> /\ history'[Len(history')] = P404
           /\ ~navigationLock']_vars

IsPrefix(s, t) == Len(s) <= Len(t) /\ SubSeq(t, 1, Len(s)) = s

\* C6: the guards an attempt has invoked are a prefix of the global guards
\* followed by the matched route's guards, and an attempt that has passed
\* its guards has invoked all of them.
C6_GlobalThenRouteGuards ==
    \A i \in 1..Len(tasks) :
        LET t     == tasks[i]
            order == routerMiddlewares \o t.route.middlewares
        IN t.route # NoRoute =>
              /\ IsPrefix(t.guardLog, order)
              /\ t.pc \in {"n_complete", "h_render"} => t.guardLog = order

\* C7: an attempt ended by guard cancellation has emitted no error event and
\* has rendered no error screen.
C7_CancellationIsNoFault ==
    ended.outcome \in {"cancelled", "redirected"} =>
        /\ ended.emitted \cap ErrorEvents = {}
        /\ ended.rendered # "error"

\* C8: an attempt in which a guard threw a fault other than cancellation has
\* emitted an error event and ends with the error screen in the mount
\* target: the '/500' screen if registered, else the built-in page.
C8_FaultShowsErrorScreen ==
    [][(AttemptEnds /\ ended'.outcome = "fault") =>
           /\ ended'.emitted \cap ErrorEvents # {}
           /\ container' = IF HasRoute(routes, P500) THEN Screen("ErrorPage")
                                                     ELSE Builtin500]_vars

-----------------------------------------------------------------------------
(* Navigation engine: the history commit *)

\* C15: a navigate whose last guard returns commits history once: with
\* replace set and a non-empty history the last entry becomes the path and
\* the length stays, otherwise the path is appended; currentRoute and params
\* become the path and its matched parameters; the rest of the attempt
\* leaves history alone.
C15_CommitsHistoryOnce ==
    \A id \in 1..Len(tasks) :
        LET t  == tasks[id]
            st == NavStep(Cur, id, "pass")
            n  == Len(history)
        IN /\ (t.kind = "nav" /\ t.pc = "n_guard" /\ t.gi = Len(routerMiddlewares)) =>
                 /\ IF t.replace /\ n > 0
                    THEN /\ Len(st.history) = n
                         /\ st.history[n] = t.path
                         /\ SubSeq(st.history, 1, n - 1) = SubSeq(history, 1, n - 1)
                    ELSE st.history = Append(history, t.path)
                 /\ st.currentRoute = t.path
                 /\ st.params = ParamsOf(t.route.originalPath, t.path)
           /\ (t.kind = "nav" /\ t.pc = "n_complete") =>
                 /\ st.history = history
                 /\ st.currentRoute = currentRoute

\* After a first navigate pushed '/login' and returned, navigate('/item/42',
\* replace) has committed: the one entry is now '/item/42'
C15_Witness ==
    /\ ended.kind = "nav" /\ ended.outcome = "ok"
    /\ started = 2
    /\ history = <<PItem42>>
    /\ currentRoute = PItem42
    /\ params = {<<"id", "42">>}
    /\ \E i \in 1..Len(tasks) :
          tasks[i].kind = "nav" /\ tasks[i].pc = "n_complete" /\ tasks[i].replace

-----------------------------------------------------------------------------
(* useState and the updater it returns *)

MaxCalls == 3

MaxRenders == 2

\* lines 291-337: useState(initial) while currentComponent is name
UseStateAs(name, initial, outside, screen) ==
    LET fresh == name # "" /\ ~Truthy(state[name])
    IN /\ stateCalls < MaxCalls
       /\ stateCalls' = stateCalls + 1
       /\ state' = IF fresh THEN [state EXCEPT ![name] = initial.value] ELSE state
       /\ creates' = IF fresh THEN [creates EXCEPT ![name] = @ + 1] ELSE creates
       /\ setters' = IF name # "" THEN setters \cup {name} ELSE setters
       /\ stateCall' = [op |-> "useState", name |-> name, outside |-> outside,
                        fault |-> (name = ""),
                        before |-> IF name = "" THEN JsUndefined ELSE state[name],
                        arg |-> initial.value, created |-> fresh,
                        emitted |-> IF fresh
                                    THEN <<StateEvent("state:create", name,
                                                      JsUndefined, initial.value)>>
                                    ELSE <<>>,
                        screen |-> screen]

\* lines 241-256: renderComponent(name) sets currentComponent and awaits
\* runMiddlewares
RenderComponent(name) ==
    /\ Len(rendering) < MaxRenders
    /\ currentComponent' = name
    /\ rendering' = Append(rendering, name)
    /\ UNCHANGED <<state, setters, creates, stateCall, stateCalls>>
    /\ UNCHANGED <<navVars, domVars, matchVars, hookVars, registryVars, breakerVars>>

\* lines 257, 291-313: runMiddlewares has returned to the r-th suspended
\* renderComponent call, which calls its screen function; the screen
\* function calls useState(initial)
ScreenFunction(r, initial) ==
    /\ r \in 1..Len(rendering)
    /\ UseStateAs(currentComponent, initial, FALSE, rendering[r])
    /\ rendering' = RemoveAt(rendering, r)
    /\ UNCHANGED <<routerVars, domVars, matchVars, hookVars, registryVars, breakerVars>>

\* useState(initial) is called while no screen function is being evaluated
UseStateOutside(initial) ==
    /\ UseStateAs(currentComponent, initial, TRUE, "")
    /\ UNCHANGED rendering
    /\ UNCHANGED <<routerVars, domVars, matchVars, hookVars, registryVars, breakerVars>>

\* A pass is started only when no pass is in flight
updateComponentCoalesced(st, componentName) ==
    IF st.currentComponent = componentName /\ st.tasks = <<>>
    THEN HandleRouteCall(st)
    ELSE st

\* lines 339-343 and 525-531: updateComponent -> handleRoute -> _handleRoute,
\* on a router that _initRouter has set up (vdom.rootElement is set)
updateComponent(st, componentName) ==
    IF st.currentComponent = componentName
    THEN HandleRouteCall(st)
    ELSE st

\* lines 315-334: the updater returned for screen name is called: the slot
\* is written, state:update is emitted and, with a current screen, a
\* _handleRoute pass is started and runs up to its first await
SetState(name, newState) ==
    LET new == IF newState.t = "function"
               THEN ApplyUpdater(newState.v, state[name])
               ELSE Spread(state[name], newState)
        st  == IF currentComponent # ""
               THEN updateComponent(Cur, currentComponent)
               ELSE Cur
    IN /\ name \in setters
       /\ stateCalls < MaxCalls
       /\ stateCalls' = stateCalls + 1
       /\ state' = [state EXCEPT ![name] = new]
       /\ stateCall' = [op |-> "setState", name |-> name, outside |-> FALSE,
                        fault |-> FALSE, before |-> state[name], arg |-> newState,
                        created |-> FALSE,
                        emitted |-> <<StateEvent("state:update", name,
                                                 state[name], new)>>,
                        screen |-> ""]
       /\ tasks' = st.tasks
       /\ started' = st.started
       /\ UNCHANGED <<routes, routerMiddlewares, navigationLock, currentRoute,
                      params, history, location, pendingEvents, container,
                      committed, currentComponent, ended>>
       /\ UNCHANGED <<setters, creates, rendering, domVars, matchVars, hookVars,
                      registryVars, breakerVars>>

StateInit == routes = RouteConfig(TRUE) /\ InitOther

StateNext ==
    \/ \E name \in Screens : RenderComponent(name)
    \/ \E r \in 1..MaxRenders, initial \in Initials : ScreenFunction(r, initial)
    \/ \E initial \in Initials : UseStateOutside(initial)
    \/ \E name \in Screens, newState \in Updates : SetState(name, newState)

SpecState == StateInit /\ [][StateNext]_vars

\* The value of key in the object x, undefined when x has no such field
FieldOf(x, key) ==
    IF \E f \in x.fields : f[1] = key
    THEN (CHOOSE f \in x.fields : f[1] = key)[2]
    ELSE "undefined"

\* C16: an updater called with an object u on an object state s leaves the
\* shallow merge of s and u in the slot: every key of u with u's value, every
\* other key of s with s's value, and no other key; called with a function f
\* it leaves f(s).
C16_UpdaterMergesShallowly ==
    stateCall.op = "setState" =>
        LET s   == stateCall.before
            u   == stateCall.arg
            new == state[stateCall.name]
        IN /\ (s.t = "object" /\ u.t = "object") =>
                 /\ new.t = "object"
                 /\ \A f \in new.fields : f \in s.fields \cup u.fields
                 /\ \A f \in u.fields : f \in new.fields
                 /\ \A f \in s.fields :
                       FieldOf(u, f[1]) = "undefined" => f \in new.fields
                 /\ \A f, g \in new.fields : f[1] = g[1] => f = g
           /\ u.t = "function" => new = ApplyUpdater(u.v, s)

\* {b: 2} was merged into {a: 1}, giving {a: 1, b: 2}
C16_Witness ==
    /\ stateCall.op = "setState"
    /\ stateCall.before = JsObject({<<"a", "1">>})
    /\ stateCall.arg = JsObject({<<"b", "2">>})
    /\ state[stateCall.name] = JsObject({<<"a", "1">>, <<"b", "2">>})

\* C17: the initial state of a screen is evaluated (and state:create
\* emitted) once, on the first useState call for the screen, never again.
C17_InitialEvaluatedOnce ==
    \A name \in Screens : creates[name] = IF name \in setters THEN 1 ELSE 0

\* C18: a useState call made while no screen function is being evaluated
\* fails and creates no state slot.
C18_UseStateOutsideScreenFails ==
    (stateCall.op = "useState" /\ stateCall.outside) =>
        (stateCall.fault /\ ~stateCall.created)

-----------------------------------------------------------------------------
(* Hooks: registration, then emission *)

MaxHooks == 2

MaxEmits == 3

\* The handlers registered so far
Registered == Len(hooks["data:sync"]) + Len(hooks["hook:error"])

\* A plugin registers a handler; registration precedes emission
RegisterHooks(sub) ==
    /\ emits = 0
    /\ Registered < MaxHooks
    /\ HBecomes(registerHooks(HCur, sub.plugin, sub.hook, sub.function,
                              Registered + 1))

\* lines 269-280: setPluginEnabled(name, enabled), with the emission of
\* plugin:status-changed it makes
SetPluginEnabled(name, enabled) ==
    /\ emits = 0
    /\ HBecomes(executeHook([HCur EXCEPT !.pluginEnabled[name] = enabled],
                            "plugin:status-changed"))

\* The application calls executeHook('data:sync')
Emit(hookName) ==
    /\ emits < MaxEmits
    /\ hooks[hookName] # <<>>
    /\ HBecomes(executeHook(HCur, hookName))

\* The handler an emission awaits returns or throws
HandlerSettles(e) ==
    /\ e \in 1..Len(emissions)
    /\ (hooks[emissions[e].hook][emissions[e].pos].function.faults
           /\ hooks["hook:error"] # <<>>) => emits < MaxEmits
    /\ HBecomes(Settle(HCur, e))

HooksInit == routes = RouteConfig(TRUE) /\ InitOther

HooksNext ==
    \/ \E sub \in Subscriptions : RegisterHooks(sub)
    \/ \E name \in Plugins, enabled \in BOOLEAN : SetPluginEnabled(name, enabled)
    \/ Emit("data:sync")
    \/ \E e \in 1..MaxEmits : HandlerSettles(e)

SpecHooks == HooksInit /\ [][HooksNext]_vars

\* The priority a subscriber was registered with: the one its handler
\* declares, 50 when it declares none
DeclaredPriority(sub) ==
    IF sub.function.declared THEN sub.function.priority ELSE DefaultPriority

\* Ascending declared priority, registration order among equals
InPriorityOrder(log) ==
    \A i, j \in 1..Len(log) :
        i < j => \/ DeclaredPriority(log[i]) < DeclaredPriority(log[j])
                 \/ /\ DeclaredPriority(log[i]) = DeclaredPriority(log[j])
                    /\ log[i].reg < log[j].reg

\* C19: an emission invokes the subscribers in ascending order of declared
\* priority (none counts as 50, 0 counts as 0), equal priorities in
\* registration order, and has at most one invoked subscriber unsettled.
C19_AscendingPriorityOneAtATime ==
    /\ \A e \in 1..Len(emissions) :
          /\ InPriorityOrder(emissions[e].log)
          /\ Len(emissions[e].log) - emissions[e].settled <= 1
    /\ InPriorityOrder(emitDone.log)

\* The subscribers of a hook whose plugin is enabled, in registry order
EnabledSubscribers(hookName) ==
    SelectSeq(hooks[hookName], LAMBDA sub : isPluginEnabled(HCur, sub.plugin))

Faulting(log) == { i \in 1..Len(log) : log[i].function.faults }

\* C20: an emission in which subscribers fault returns to the emitter
\* without a fault, has invoked every enabled subscriber of the hook, and
\* has made one hook:error emission per faulting subscriber.
C20_FaultsAreIsolated ==
    /\ emitDone.hook # "" =>
          /\ emitDone.outcome = "returned"
          /\ emitDone.log = EnabledSubscribers(emitDone.hook)
          /\ emitDone.settled = Len(emitDone.log)
          /\ emitDone.errors = Cardinality(Faulting(emitDone.log))
    /\ \A e \in 1..Len(emissions) :
          LET em == emissions[e]
          IN /\ em.log = SubSeq(EnabledSubscribers(em.hook), 1, Len(em.log))
             /\ em.errors = Cardinality(Faulting(SubSeq(em.log, 1, em.settled)))

\* An emission of data:sync whose first subscriber threw has returned after
\* invoking a later subscriber, with one hook:error emission made
C20_Witness ==
    /\ emitDone.hook = "data:sync"
    /\ emitDone.outcome = "returned"
    /\ Len(emitDone.log) = 2
    /\ emitDone.log[1].function.faults
    /\ ~emitDone.log[2].function.faults
    /\ emitDone.errors = 1

-----------------------------------------------------------------------------
(* The plugin registry on its own *)

MaxUnregisters == 1

\* The dependency lists plugins declare: none, or one other plugin
DependencyLists == {<<>>} \cup { <<n>> : n \in PluginNames }

PBecomes(st) ==
    /\ plugins' = st.plugins
    /\ pluginStatus' = st.pluginStatus
    /\ dependencies' = st.dependencies
    /\ pluginLoadOrder' = st.pluginLoadOrder
    /\ initialized' = st.initialized
    /\ initLog' = st.initLog
    /\ pluginCall' = st.pluginCall
    /\ unregs' = st.unregs

\* The application calls pluginSystem.register(name, plugin, {dependencies})
Register(name, deps) ==
    /\ PBecomes(register(PCur, name, deps))
    /\ UNCHANGED <<routerVars, domVars, matchVars, stateVars, hookVars,
                   breakerVars>>

\* The application calls pluginSystem.unregister(name); lines 297-303 drop
\* the plugin's hook subscribers
Unregister(name) ==
    /\ IsRegistered(PCur, name) => unregs < MaxUnregisters
    /\ PBecomes(unregister(PCur, name))
    /\ hooks' = [h \in HookNames |->
                    SelectSeq(hooks[h], LAMBDA sub : sub.plugin # name)]
    /\ UNCHANGED <<pluginEnabled, emissions, emitDone, emits>>
    /\ UNCHANGED <<routerVars, domVars, matchVars, stateVars, breakerVars>>

\* The application calls pluginSystem.initializeAll()
InitializeAll ==
    /\ PBecomes(initializeAll(PCur))
    /\ UNCHANGED <<routerVars, domVars, matchVars, stateVars, hookVars,
                   breakerVars>>

PluginsInit == routes = RouteConfig(TRUE) /\ InitOther

PluginsNext ==
    \/ \E name \in PluginNames, deps \in DependencyLists : Register(name, deps)
    \/ \E name \in PluginNames : Unregister(name)
    \/ InitializeAll

SpecPlugins == PluginsInit /\ [][PluginsNext]_vars

\* The plugins n declares a dependency on
DependsOn(n) == Range(dependencies[n])

\* m is reached from n along one or more declared dependencies
RECURSIVE ReachesIn(_, _, _)
ReachesIn(n, m, k) ==
    /\ k > 0
    /\ \E d \in DependsOn(n) : d = m \/ ReachesIn(d, m, k - 1)

Reaches(n, m) == ReachesIn(n, m, Cardinality(PluginNames))

OnCycle(n) == Reaches(n, n)

HasCycle == \E n \in PluginNames : OnCycle(n)

\* C21: a register call that fails for a missing dependency returns false
\* and leaves plugins, plugin states and dependencies as they were; the
\* plugin it was for is not initialized and is in no load order computed
\* while it stays unregistered.
C21_MissingDependencyRejected ==
    /\ \A name \in PluginNames, deps \in DependencyLists :
          (~IsRegistered(PCur, name)
              /\ \E i \in 1..Len(deps) : ~IsRegistered(PCur, deps[i])) =>
             LET st == register(PCur, name, deps)
             IN /\ ~st.pluginCall.result
                /\ [st EXCEPT !.pluginCall = pluginCall] = PCur
    /\ (pluginCall.op = "register" /\ pluginCall.fault) =>
          /\ pluginStatus[pluginCall.name] # "initialized"
          /\ pluginCall.name \notin Range(LoadOrder(PCur).order)

\* C22: with a cycle in the dependency mapping, initializeAll() fails with
\* the circular-dependency fault, leaves pluginLoadOrder and the initialized
\* flag as they were, invokes the init of no plugin on the cycle, and no
\* plugin on the cycle has status 'initialized'.
C22_CycleFailsInitializeAll ==
    HasCycle =>
        LET st == initializeAll(PCur)
        IN /\ st.pluginCall.fault
           /\ st.pluginLoadOrder = pluginLoadOrder
           /\ st.initialized = initialized
           /\ st.initLog = initLog
           /\ \A n \in PluginNames :
                 OnCycle(n) => st.pluginStatus[n] # "initialized"

\* C23: when initializeAll() meets a dependency cycle, every registered
\* plugin that is neither on the cycle nor depends on it, directly or not,
\* is initialized all the same.
C23_CycleSparesIndependentPlugins ==
    (HasCycle /\ ~initialized) =>
        LET st == initializeAll(PCur)
        IN \A n \in Range(plugins) :
              (~OnCycle(n) /\ n \notin InitThrows
                  /\ \A m \in PluginNames : OnCycle(m) => ~Reaches(n, m))
                 => st.pluginStatus[n] = "initialized"

\* C24: on a registry without a cycle, initializeAll() computes a load order
\* that lists every registered plugin once and nothing else, each plugin
\* behind the plugins it depends on, and invokes the init functions in
\* exactly that order.
C24_LoadOrderIsTopological ==
    (~HasCycle /\ ~initialized) =>
        LET st    == initializeAll(PCur)
            order == st.pluginLoadOrder
        IN /\ Range(order) = Range(plugins)
           /\ Len(order) = Len(plugins)
           /\ \A i, j \in 1..Len(order) :
                 order[j] \in DependsOn(order[i]) => j < i
           /\ st.initLog = initLog \o order

-----------------------------------------------------------------------------
(* Navigation engine: a guard that throws *)

\* Where an attempt is suspended after one of its guards threw
AfterThrow == {"n_error", "h_cancelled", "h_redirected", "h_fault"}

\* One step of task id of the router state st
AttemptStep(st, id, g) ==
    IF st.tasks[id].kind = "nav" THEN NavStep(st, id, g) ELSE HandleStep(st, id, g)

C26_NavigateRendersBeforeComplete ==
    \A i \in 1..Len(tasks) :
        (tasks[i].kind = "nav" /\ tasks[i].pc = "n_complete") =>
            container = Screen(tasks[i].route.component)

\* C27: the location write of navigate's commit starts no _handleRoute run
\* for the location it wrote.  '/login' is a location only navigate writes
\* (the user's own location changes go to other paths), so no _handleRoute
\* run is ever for '/login'.
C27_CommitWriteDoesNotReenter ==
    \A i \in 1..Len(tasks) :
        tasks[i].kind = "handle" => tasks[i].path # PLogin

-----------------------------------------------------------------------------
(* The reconciler: wholesale replacement *)

\* The virtual nodes that reach isVNodeChanged: roots and children
VNodes == Trees \cup ChildNodes

Primitive(v) == v.kind \in {"string", "number"}

\* The two nodes differ in kind, in primitive value, or in tag or key
Differ(old, new) ==
    \/ Primitive(old) # Primitive(new)
    \/ Primitive(old) /\ Primitive(new)
          /\ <<old.kind, old.value>> # <<new.kind, new.value>>
    \/ ~Primitive(old) /\ ~Primitive(new)
          /\ (old.tag # new.tag
               \/ PropVal(old.props, "key") # PropVal(new.props, "key"))

\* old and new are elements that isVNodeChanged takes for the same node,
\* with equally many children, none of them falsy
SameShape(old, new) ==
    /\ old.kind = "object" /\ new.kind = "object"
    /\ ~isVNodeChanged(old, new)
    /\ Len(old.children) = Len(new.children)
    /\ \A j \in 1..Len(old.children) :
          ~Falsy(old.children[j]) /\ ~Falsy(new.children[j])

\* C28: isVNodeChanged(old, new) is true exactly when old and new differ in
\* primitive-vs-structured kind, are primitives of different value, or are
\* structured with a different tag or key; and where it is true in a
\* re-render, for the root or for a child at index i, the host node at that
\* place is the fresh instantiation of new.
C28_ChangedNodeReplacedWholesale ==
    /\ \A old \in VNodes, new \in VNodes :
          isVNodeChanged(old, new) <=> Differ(old, new)
    /\ (prevTree # NoVNode /\ isVNodeChanged(prevTree, lastVNode)) =>
          (~renderFault /\ host = Mounted(lastVNode))
    /\ (prevTree # NoVNode /\ SameShape(prevTree, lastVNode)) =>
          \A i \in 1..Len(prevTree.children) :
              isVNodeChanged(prevTree.children[i], lastVNode.children[i]) =>
                  /\ ~renderFault
                  /\ host.children[1].children[i] = createDOM(lastVNode.children[i])

-----------------------------------------------------------------------------
(* The mount target and the committed tree *)

\* What the mount target shows when its host subtree is the instantiation
\* of vani.vdom.currentTree
Instantiated(screen) == IF screen = "" THEN <<"empty", "">> ELSE Screen(screen)

\* C29: whenever no render is executing, the host subtree of the mount
\* target is the instantiation of the last committed virtual tree, also
\* after a not-found or error fallback was shown and after guards have run.
C29_HostIsCommittedTree == container = Instantiated(committed)

-----------------------------------------------------------------------------
(* Component state: the re-navigation an update starts *)

\* The step is a call of a state updater
UpdaterCalled == stateCalls' = stateCalls + 1 /\ stateCall'.op = "setState"

-----------------------------------------------------------------------------
(* Navigation engine: what a dropped attempt leaves alone *)

\* C31: history is written only by the commit of an attempt that passed its
\* guards: a back() whose navigate call is dropped at the lock gate or
\* returns at the no-op check leaves history as it was.
C31_DroppedBackKeepsHistory ==
    LET st == BackCall(Cur)
    IN (st.tasks = tasks /\ st.ended.outcome \in {"locked", "noop"}) =>
           st.history = history

-----------------------------------------------------------------------------
(* Hooks: which handlers an emission invokes *)

\* The owner was not disabled by setPluginEnabled(owner, false)
NotDisabled(owner) == owner \in Plugins => pluginEnabled[owner]

\* C32: an emission invokes a handler exactly when its owner has not been
\* disabled: the handlers of a disabled plugin are skipped, those of an
\* enabled or re-enabled plugin are invoked, and so are the handlers
\* registered with registerHooks under any other owner name.
C32_InvokedIffOwnerNotDisabled ==
    emitDone.hook # "" =>
        emitDone.log = SelectSeq(hooks[emitDone.hook],
                                 LAMBDA sub : NotDisabled(sub.plugin))

\* C33: the chain of hook:error emissions a faulting handler starts is
\* bounded: when the awaited subscriber of a hook:error emission settles,
\* with or without a fault, no further emission is started.
C33_ErrorChainEnds ==
    \A e \in 1..Len(emissions) :
        emissions[e].hook = "hook:error" => Settle(HCur, e).emits = emits

-----------------------------------------------------------------------------
(* Navigation engine: history and the current route *)

\* C34: whenever no navigation attempt is in progress and history is not
\* empty, the last history entry is currentRoute.
C34_HistoryEndsAtCurrentRoute ==
    (tasks = <<>> /\ history # <<>>) => history[Len(history)] = currentRoute

-----------------------------------------------------------------------------
(* Component state: the slot a screen function uses *)

\* C35: a useState call made by the screen function of screen S reads and
\* creates the slot keyed by S, however the renderComponent calls that are
\* suspended in the middleware chain interleave.
C35_UseStateUsesOwnSlot ==
    (stateCall.op = "useState" /\ ~stateCall.outside) =>
        stateCall.name = stateCall.screen

-----------------------------------------------------------------------------
(* Navigation engine: overlapping passes *)

\* The path _handleRoute reads from the location
Observed == IF location = NoPath THEN PRoot ELSE location

\* C36: once every _handleRoute pass has finished and no location event is
\* waiting, and the pass that finished last rendered its screen, the
\* rendered screen, currentRoute and params are those of the most recently
\* observed location, also when passes overlapped.
C36_LatestLocationWins ==
    (tasks = <<>> /\ pendingEvents = 0
        /\ ended.kind = "handle" /\ ended.outcome = "ok") =>
        LET m == findMatchingRoute(routes, Observed)
        IN /\ currentRoute = Observed
           /\ params = m.params
           /\ container = Screen(m.route.component)

-----------------------------------------------------------------------------
(* Navigation engine: who clears the lock *)

\* The navigate attempts that passed the gate and have not returned
NavInFlight == { i \in 1..Len(tasks) : tasks[i].kind = "nav" }

-----------------------------------------------------------------------------
(* The plugin registry: what the load order lists *)

\* C38: after any register and unregister calls, the load order that
\* determineLoadOrder computes lists only plugins that are registered now,
\* each of them once: an unregistered plugin is not in it, even when a
\* registered plugin declares it as a dependency.
C38_LoadOrderListsRegisteredOnly ==
    LET w == LoadOrder(PCur)
    IN ~w.fault =>
          /\ Range(w.order) = Range(plugins)
          /\ \A i, j \in 1..Len(w.order) : w.order[i] = w.order[j] => i = j

\* C39: in initializeAll, on a registry in which every declared dependency
\* is registered, a plugin is initialized only when all its declared
\* dependencies are: a plugin whose dependency's init failed is not
\* initialized.
C39_InitializedAfterDependencies ==
    (~initialized /\ \A n \in Range(plugins) : DependsOn(n) \subseteq Range(plugins)) =>
        LET st == initializeAll(PCur)
        IN \A n \in Range(plugins) :
              st.pluginStatus[n] = "initialized" =>
                  \A d \in DependsOn(n) : st.pluginStatus[d] = "initialized"

-----------------------------------------------------------------------------
(* The circuit breaker on its own *)

MaxBreakerCalls == 4

MaxClock == 3

\* lines 772-783: the guard is called; in OPEN it is rejected until the
\* clock has passed nextAttempt, else it goes on to await next()
BreakerCall ==
    /\ cbStarted < MaxBreakerCalls
    /\ cbStarted' = cbStarted + 1
    /\ IF cbState = "OPEN" /\ ~(clock > nextAttempt)
       THEN /\ cbLast' = BreakerStep("rejected", "OPEN")
            /\ UNCHANGED <<cbState, cbCalls>>
       ELSE LET entered == IF cbState = "OPEN" THEN "HALF_OPEN" ELSE cbState
            IN /\ cbState' = entered
               /\ cbCalls' = Append(cbCalls, entered)
               /\ cbLast' = BreakerStep("entered", entered)
    /\ UNCHANGED <<failureCount, nextAttempt, clock>>
    /\ UNCHANGED <<routerVars, domVars, matchVars, stateVars, hookVars, registryVars>>

\* lines 786-793: the next() that call c awaits returns
BreakerSuccess(c) ==
    /\ c \in 1..Len(cbCalls)
    /\ cbState' = IF cbState = "HALF_OPEN" THEN "CLOSED" ELSE cbState
    /\ failureCount' = IF cbState = "HALF_OPEN" THEN 0 ELSE failureCount
    /\ cbCalls' = RemoveAt(cbCalls, c)
    /\ cbLast' = BreakerStep("success", cbCalls[c])
    /\ UNCHANGED <<nextAttempt, clock, cbStarted>>
    /\ UNCHANGED <<routerVars, domVars, matchVars, stateVars, hookVars, registryVars>>

\* lines 794-812: the next() that call c awaits throws
BreakerFailure(c) ==
    /\ c \in 1..Len(cbCalls)
    /\ failureCount' = failureCount + 1
    /\ cbState' = IF failureCount + 1 >= FailureThreshold THEN "OPEN" ELSE cbState
    /\ nextAttempt' = IF failureCount + 1 >= FailureThreshold
                      THEN clock + ResetTimeout
                      ELSE nextAttempt
    /\ cbCalls' = RemoveAt(cbCalls, c)
    /\ cbLast' = BreakerStep("failure", cbCalls[c])
    /\ UNCHANGED <<clock, cbStarted>>
    /\ UNCHANGED <<routerVars, domVars, matchVars, stateVars, hookVars, registryVars>>

\* Time passes
Tick ==
    /\ clock < MaxClock
    /\ clock' = clock + 1
    /\ UNCHANGED <<cbState, failureCount, nextAttempt, cbCalls, cbLast, cbStarted>>
    /\ UNCHANGED <<routerVars, domVars, matchVars, stateVars, hookVars, registryVars>>

BreakerInit == routes = RouteConfig(TRUE) /\ InitOther

BreakerNext ==
    \/ BreakerCall
    \/ \E c \in 1..MaxBreakerCalls : BreakerSuccess(c)
    \/ \E c \in 1..MaxBreakerCalls : BreakerFailure(c)
    \/ Tick

SpecBreaker == BreakerInit /\ [][BreakerNext]_vars

\* C40: while the breaker is OPEN and the clock has not passed nextAttempt,
\* a call is rejected with CIRCUIT_OPEN, invokes no downstream step and
\* changes neither state nor failureCount; the state becomes OPEN only in a
\* step in which a downstream step failed and failureCount reached the
\* threshold; it returns to CLOSED, with failureCount 0, only on the success
\* of a call that was made in HALF_OPEN.
C40_BreakerTransitions ==
    [][/\ (cbState = "OPEN" /\ clock <= nextAttempt /\ cbStarted' # cbStarted) =>
             /\ cbLast'.op = "rejected"
             /\ UNCHANGED <<cbState, failureCount, cbCalls>>
       /\ (cbState # "OPEN" /\ cbState' = "OPEN") =>
             /\ cbLast'.op = "failure" /\ Len(cbCalls') < Len(cbCalls)
             /\ failureCount' >= FailureThreshold
       /\ (cbState # "CLOSED" /\ cbState' = "CLOSED") =>
             /\ cbLast'.op = "success" /\ Len(cbCalls') < Len(cbCalls)
             /\ cbLast'.entered = "HALF_OPEN"
             /\ failureCount' = 0]_vars

====
